---- MODULE Spec2Model ----
(***************************************************************************)
(* Model of the Graphiti gateway: the two FastAPI entry points             *)
(* (main_simple.py and main.py), their lifespan managers, the global       *)
(* graphiti_instance handle and the request handlers.  The Graphiti        *)
(* library and the graph database are external: every call into them is    *)
(* modelled by its possible outcomes (returns a value or raises).          *)
(***************************************************************************)
EXTENDS Integers, Sequences, FiniteSets, TLC

(* ---- bounds ---- *)
MaxRequests == 2      \* requests handled during one run
MaxResults  == 2      \* longest result list the backend returns
NTriggers   == 2      \* concurrent entries of lifespan in SpecConc

(* ---- values ---- *)
None == 0             \* graphiti_instance = None; instances are 1, 2, ...

\* Text is a sequence of one-character strings.
Digits == <<"0", "1", "2", "3", "4", "5", "6", "7", "8", "9">>

\* request bodies offered by clients
Contents == {<<>>, <<" ">>, <<"h", "i">>}
Queries  == {<<"B", "o", "b">>}
Limits   == {1, 2}
Names    == {<<"g">>}

\* backend-native identifiers: integers or text
Uuids == {[kind |-> "int", n |-> 17, s |-> <<>>],
          [kind |-> "str", n |-> 0, s |-> <<"e", "1">>]}
Facts == {<<"f">>, <<"g">>}
Scores == {3}

\* backend search result records; the score attribute may be absent
RawRecords ==
    {r \in [uuid : Uuids, fact : Facts] : (r.uuid.kind = "int") <=> (r.fact = <<"f">>)}
        \cup [uuid : Uuids, fact : {<<"g">>}, score : Scores]

RECURSIVE SeqsUpTo(_, _)
SeqsUpTo(S, n) ==
    IF n = 0 THEN {<<>>}
    ELSE LET shorter == SeqsUpTo(S, n - 1)
         IN  shorter \cup {Append(q, x) : q \in {r \in shorter : Len(r) = n - 1}, x \in S}

\* what graphiti.search may return
BackendResults == SeqsUpTo(RawRecords, MaxResults)

(* ---- pure functions of the handlers ---- *)

\* str(n) for a non-negative integer
RECURSIVE str_int(_)
str_int(n) ==
    IF n < 10 THEN <<Digits[n + 1]>>
    ELSE Append(str_int(n \div 10), Digits[(n % 10) + 1])

\* str(x) for a backend-native identifier
str(u) == IF u.kind = "int" THEN str_int(u.n) ELSE u.s

\* getattr(result, 'score', 0.0)
getattr_score(result) ==
    IF "score" \in DOMAIN result THEN result.score ELSE 0

\* the dictionary with the score left at its default
serialize_result_default_score(result) ==
    [uuid |-> str(result.uuid), fact |-> result.fact, score |-> 0]

\* the dictionary appended for one result
serialize_result(result) ==
    [uuid |-> str(result.uuid), fact |-> result.fact, score |-> getattr_score(result)]

\* the loop building search_results
search_results(results) ==
    [i \in 1..Len(results) |-> serialize_result(results[i])]

(* ---- state ---- *)
VARIABLES
    app,                \* which entry point runs: "main_simple" or "main"
    graphiti_instance,  \* the global handle: None or an instance
    lifespan_pc,        \* position of each entry of lifespan
    constructs,         \* number of Graphiti(...) constructor calls made
    episodes,           \* episodes held by the backend
    req,                \* request slots: not yet received, suspended, done
    last                \* the response most recently sent

vars == <<app, graphiti_instance, lifespan_pc, constructs, episodes, req, last>>

Slots == 1..MaxRequests

NewSlot  == [pc |-> "new", op |-> "none", content |-> <<>>, limit |-> 0, calls |-> 0]
DoneSlot == [pc |-> "done", op |-> "none", content |-> <<>>, limit |-> 0, calls |-> 0]
Await(op, content, limit) ==
    [pc |-> "await", op |-> op, content |-> content, limit |-> limit, calls |-> 1]

\* a response: HTTP status plus the fields of the JSON bodies
Response(op, code) ==
    [op |-> op, status_code |-> code, calls |-> 0, raised |-> FALSE,
     content |-> <<>>, limit |-> 0, raw |-> <<>>,
     results |-> <<>>, results_count |-> 0,
     status |-> "", database_connected |-> FALSE,
     episode_uuid |-> <<>>, id |-> "", name |-> <<>>]

NoResponse == Response("none", 0)

InitCommon ==
    /\ app \in {"main_simple", "main"}
    /\ graphiti_instance = None
    /\ constructs = 0
    /\ episodes = 0
    /\ req = [s \in Slots |-> NewSlot]
    /\ last = NoResponse

\* the server enters lifespan once when it starts
Init ==
    /\ InitCommon
    /\ lifespan_pc = [t \in {1} |-> "start"]

Triggers == DOMAIN lifespan_pc

\* startup is complete once lifespan has yielded
Serving == \E t \in Triggers : lifespan_pc[t] \in {"yield", "yield_err"}

(* ---- lifespan ---- *)

\* entering lifespan: the log line and the start of the try block
lifespan_enter(t) ==
    /\ lifespan_pc[t] = "start"
    /\ lifespan_pc' = [lifespan_pc EXCEPT ![t] = "try"]
    /\ UNCHANGED <<app, graphiti_instance, constructs, episodes, req, last>>

\* main_simple.py: import, Graphiti(...), then await build_indices_and_constraints()
lifespan_construct(t) ==
    /\ app = "main_simple"
    /\ lifespan_pc[t] = "try"
    /\ \E outcome \in {"import_error", "raises", "ok"} :
        \/ /\ outcome = "import_error"
           /\ lifespan_pc' = [lifespan_pc EXCEPT ![t] = "yield_err"]
           /\ UNCHANGED <<graphiti_instance, constructs>>
        \/ /\ outcome = "raises"
           /\ constructs' = constructs + 1
           /\ lifespan_pc' = [lifespan_pc EXCEPT ![t] = "yield_err"]
           /\ UNCHANGED graphiti_instance
        \/ /\ outcome = "ok"
           /\ constructs' = constructs + 1
           /\ graphiti_instance' = constructs + 1
           /\ lifespan_pc' = [lifespan_pc EXCEPT ![t] = "build"]
    /\ UNCHANGED <<app, episodes, req, last>>

\* main_simple.py: build_indices_and_constraints() returns or raises
lifespan_build(t) ==
    /\ app = "main_simple"
    /\ lifespan_pc[t] = "build"
    /\ \E outcome \in {"raises", "ok"} :
        lifespan_pc' = [lifespan_pc EXCEPT ![t] =
                            IF outcome = "ok" THEN "yield" ELSE "yield_err"]
    /\ UNCHANGED <<app, graphiti_instance, constructs, episodes, req, last>>

\* main.py: Graphiti(...) then yield, or log and re-raise
main_lifespan(t) ==
    /\ app = "main"
    /\ lifespan_pc[t] = "try"
    /\ constructs' = constructs + 1
    /\ \E outcome \in {"raises", "ok"} :
        \/ /\ outcome = "raises"
           /\ lifespan_pc' = [lifespan_pc EXCEPT ![t] = "raised"]
           /\ UNCHANGED graphiti_instance
        \/ /\ outcome = "ok"
           /\ graphiti_instance' = constructs + 1
           /\ lifespan_pc' = [lifespan_pc EXCEPT ![t] = "yield"]
    /\ UNCHANGED <<app, episodes, req, last>>

(* ---- main_simple.py handlers ---- *)

Finish(s, response) ==
    /\ req' = [req EXCEPT ![s] = DoneSlot]
    /\ last' = response

\* GET /
root(s) ==
    /\ app = "main_simple"
    /\ Serving
    /\ req[s].pc = "new"
    /\ Finish(s, [Response("root", 200) EXCEPT !.status = "running"])
    /\ UNCHANGED <<app, graphiti_instance, lifespan_pc, constructs, episodes>>

\* GET /health
health_check(s) ==
    /\ app = "main_simple"
    /\ Serving
    /\ req[s].pc = "new"
    /\ LET database_connected == graphiti_instance # None
       IN  Finish(s, [Response("health_check", 200) EXCEPT
                        !.status = IF database_connected THEN "healthy" ELSE "degraded",
                        !.database_connected = database_connected])
    /\ UNCHANGED <<app, graphiti_instance, lifespan_pc, constructs, episodes>>

\* POST /episodes up to the await of graphiti_instance.add_episode
add_episode(s) ==
    /\ app = "main_simple"
    /\ Serving
    /\ req[s].pc = "new"
    /\ \E content \in Contents :
        IF graphiti_instance = None
        THEN Finish(s, [Response("add_episode", 503) EXCEPT !.content = content])
        ELSE /\ req' = [req EXCEPT ![s] = Await("add_episode", content, 0)]
             /\ UNCHANGED last
    /\ UNCHANGED <<app, graphiti_instance, lifespan_pc, constructs, episodes>>

\* POST /episodes after the await, calling the backend again when it raised
add_episode_resume_retry(s) ==
    /\ req[s].pc = "await"
    /\ req[s].op = "add_episode"
    /\ \E outcome \in {"raises", "ok"} :
        \/ /\ outcome = "ok"
           /\ episodes' = episodes + 1
           /\ Finish(s, [Response("add_episode", 200) EXCEPT
                            !.calls = req[s].calls,
                            !.content = req[s].content,
                            !.status = "success",
                            !.episode_uuid = str_int(episodes + 1)])
        \/ /\ outcome = "raises"
           /\ UNCHANGED episodes
           /\ IF req[s].calls < 2
              THEN /\ req' = [req EXCEPT ![s].calls = @ + 1]
                   /\ UNCHANGED last
              ELSE Finish(s, [Response("add_episode", 500) EXCEPT
                                !.calls = req[s].calls,
                                !.raised = TRUE,
                                !.content = req[s].content])
    /\ UNCHANGED <<app, graphiti_instance, lifespan_pc, constructs>>

\* POST /episodes after the await, dropping the handle when the backend raised
add_episode_resume_reset(s) ==
    /\ req[s].pc = "await"
    /\ req[s].op = "add_episode"
    /\ \E outcome \in {"raises", "ok"} :
        \/ /\ outcome = "ok"
           /\ episodes' = episodes + 1
           /\ UNCHANGED graphiti_instance
           /\ Finish(s, [Response("add_episode", 200) EXCEPT
                            !.calls = req[s].calls,
                            !.content = req[s].content,
                            !.status = "success",
                            !.episode_uuid = str_int(episodes + 1)])
        \/ /\ outcome = "raises"
           /\ UNCHANGED episodes
           /\ graphiti_instance' = None
           /\ Finish(s, [Response("add_episode", 500) EXCEPT
                            !.calls = req[s].calls,
                            !.raised = TRUE,
                            !.content = req[s].content])
    /\ UNCHANGED <<app, lifespan_pc, constructs>>

\* POST /episodes after the await: the backend stored the episode and returned
\* its result, or raised
add_episode_resume(s) ==
    /\ req[s].pc = "await"
    /\ req[s].op = "add_episode"
    /\ \E outcome \in {"raises", "ok"} :
        \/ /\ outcome = "ok"
           /\ episodes' = episodes + 1
           /\ Finish(s, [Response("add_episode", 200) EXCEPT
                            !.calls = req[s].calls,
                            !.content = req[s].content,
                            !.status = "success",
                            !.episode_uuid = str_int(episodes + 1)])
        \/ /\ outcome = "raises"
           /\ UNCHANGED episodes
           /\ Finish(s, [Response("add_episode", 500) EXCEPT
                            !.calls = req[s].calls,
                            !.raised = TRUE,
                            !.content = req[s].content])
    /\ UNCHANGED <<app, graphiti_instance, lifespan_pc, constructs>>

\* POST /search up to the await of graphiti_instance.search
search_knowledge_graph(s) ==
    /\ app = "main_simple"
    /\ Serving
    /\ req[s].pc = "new"
    /\ \E query \in Queries, limit \in Limits :
        IF graphiti_instance = None
        THEN Finish(s, [Response("search_knowledge_graph", 503) EXCEPT
                            !.content = query, !.limit = limit])
        ELSE /\ req' = [req EXCEPT ![s] = Await("search_knowledge_graph", query, limit)]
             /\ UNCHANGED last
    /\ UNCHANGED <<app, graphiti_instance, lifespan_pc, constructs, episodes>>

\* POST /search after the await: the backend returned its results, or raised
search_knowledge_graph_resume(s) ==
    /\ req[s].pc = "await"
    /\ req[s].op = "search_knowledge_graph"
    /\ \/ \E results \in BackendResults :
            Finish(s, [Response("search_knowledge_graph", 200) EXCEPT
                            !.calls = req[s].calls,
                            !.content = req[s].content,
                            !.limit = req[s].limit,
                            !.raw = results,
                            !.status = "success",
                            !.results_count = Len(search_results(results)),
                            !.results = search_results(results)])
       \/ Finish(s, [Response("search_knowledge_graph", 500) EXCEPT
                            !.calls = req[s].calls,
                            !.raised = TRUE,
                            !.content = req[s].content,
                            !.limit = req[s].limit])
    /\ UNCHANGED <<app, graphiti_instance, lifespan_pc, constructs, episodes>>

\* GET /stats
get_stats(s) ==
    /\ app = "main_simple"
    /\ Serving
    /\ req[s].pc = "new"
    /\ IF graphiti_instance = None
       THEN Finish(s, Response("get_stats", 503))
       ELSE Finish(s, [Response("get_stats", 200) EXCEPT !.status = "success"])
    /\ UNCHANGED <<app, graphiti_instance, lifespan_pc, constructs, episodes>>

(* ---- main.py handlers ---- *)

\* the dependency guarding the /graphs handlers: the handle, or None for the 503
get_graphiti == graphiti_instance

\* GET /
main_root(s) ==
    /\ app = "main"
    /\ Serving
    /\ req[s].pc = "new"
    /\ Finish(s, Response("root", 200))
    /\ UNCHANGED <<app, graphiti_instance, lifespan_pc, constructs, episodes>>

\* GET /health
main_health_check(s) ==
    /\ app = "main"
    /\ Serving
    /\ req[s].pc = "new"
    /\ LET database_connected == graphiti_instance # None
       IN  Finish(s, [Response("health_check", 200) EXCEPT
                        !.status = IF database_connected THEN "healthy" ELSE "unhealthy",
                        !.database_connected = database_connected])
    /\ UNCHANGED <<app, graphiti_instance, lifespan_pc, constructs, episodes>>

\* POST /graphs storing the graph as an episode of the backend
create_graph_stored(s) ==
    /\ app = "main"
    /\ Serving
    /\ req[s].pc = "new"
    /\ \E name \in Names :
        IF get_graphiti = None
        THEN /\ Finish(s, [Response("create_graph", 503) EXCEPT !.name = name])
             /\ UNCHANGED episodes
        ELSE /\ Finish(s, [Response("create_graph", 200) EXCEPT
                            !.id = "graph_001", !.name = name, !.status = "active"])
             /\ episodes' = episodes + 1
    /\ UNCHANGED <<app, graphiti_instance, lifespan_pc, constructs>>

\* POST /graphs
create_graph(s) ==
    /\ app = "main"
    /\ Serving
    /\ req[s].pc = "new"
    /\ \E name \in Names :
        IF get_graphiti = None
        THEN Finish(s, [Response("create_graph", 503) EXCEPT !.name = name])
        ELSE Finish(s, [Response("create_graph", 200) EXCEPT
                            !.id = "graph_001", !.name = name, !.status = "active"])
    /\ UNCHANGED <<app, graphiti_instance, lifespan_pc, constructs, episodes>>

\* POST /graphs/{graph_id}/data up to the await of graphiti.add_data
add_data(s) ==
    /\ app = "main"
    /\ Serving
    /\ req[s].pc = "new"
    /\ \E text \in Contents :
        IF get_graphiti = None
        THEN Finish(s, [Response("add_data", 503) EXCEPT !.content = text])
        ELSE /\ req' = [req EXCEPT ![s] = Await("add_data", text, 0)]
             /\ UNCHANGED last
    /\ UNCHANGED <<app, graphiti_instance, lifespan_pc, constructs, episodes>>

\* POST /graphs/{graph_id}/data after the await
add_data_resume(s) ==
    /\ req[s].pc = "await"
    /\ req[s].op = "add_data"
    /\ \E outcome \in {"raises", "ok"} :
        \/ /\ outcome = "ok"
           /\ episodes' = episodes + 1
           /\ Finish(s, [Response("add_data", 200) EXCEPT
                            !.calls = req[s].calls,
                            !.content = req[s].content,
                            !.status = "success"])
        \/ /\ outcome = "raises"
           /\ UNCHANGED episodes
           /\ Finish(s, [Response("add_data", 500) EXCEPT
                            !.calls = req[s].calls,
                            !.raised = TRUE,
                            !.content = req[s].content])
    /\ UNCHANGED <<app, graphiti_instance, lifespan_pc, constructs>>

\* POST /graphs/{graph_id}/query up to the await of graphiti.search
query_graph(s) ==
    /\ app = "main"
    /\ Serving
    /\ req[s].pc = "new"
    /\ \E query \in Queries, limit \in Limits :
        IF get_graphiti = None
        THEN Finish(s, [Response("query_graph", 503) EXCEPT
                            !.content = query, !.limit = limit])
        ELSE /\ req' = [req EXCEPT ![s] = Await("query_graph", query, limit)]
             /\ UNCHANGED last
    /\ UNCHANGED <<app, graphiti_instance, lifespan_pc, constructs, episodes>>

\* POST /graphs/{graph_id}/query after the await: the results go out as returned
query_graph_resume(s) ==
    /\ req[s].pc = "await"
    /\ req[s].op = "query_graph"
    /\ \/ \E results \in BackendResults :
            Finish(s, [Response("query_graph", 200) EXCEPT
                            !.calls = req[s].calls,
                            !.content = req[s].content,
                            !.limit = req[s].limit,
                            !.raw = results,
                            !.results = results,
                            !.results_count = IF results # <<>> THEN Len(results) ELSE 0])
       \/ Finish(s, [Response("query_graph", 500) EXCEPT
                            !.calls = req[s].calls,
                            !.raised = TRUE,
                            !.content = req[s].content,
                            !.limit = req[s].limit])
    /\ UNCHANGED <<app, graphiti_instance, lifespan_pc, constructs, episodes>>

\* GET /graphs
list_graphs(s) ==
    /\ app = "main"
    /\ Serving
    /\ req[s].pc = "new"
    /\ Finish(s, [Response("list_graphs", 200) EXCEPT
                    !.id = "graph_001", !.name = <<"D">>, !.status = "active"])
    /\ UNCHANGED <<app, graphiti_instance, lifespan_pc, constructs, episodes>>

(* ---- specifications ---- *)

Lifespan ==
    \/ \E t \in Triggers : lifespan_enter(t)
    \/ \E t \in Triggers : lifespan_construct(t)
    \/ \E t \in Triggers : lifespan_build(t)
    \/ \E t \in Triggers : main_lifespan(t)

Handlers ==
    \E s \in Slots :
        \/ root(s)
        \/ health_check(s)
        \/ add_episode(s)
        \/ add_episode_resume(s)
        \/ search_knowledge_graph(s)
        \/ search_knowledge_graph_resume(s)
        \/ get_stats(s)
        \/ main_root(s)
        \/ main_health_check(s)
        \/ create_graph(s)
        \/ add_data(s)
        \/ add_data_resume(s)
        \/ query_graph(s)
        \/ query_graph_resume(s)
        \/ list_graphs(s)

Next == Lifespan \/ Handlers

\* one server process: lifespan entered once, then requests
Spec == Init /\ [][Next]_vars

\* lifespan entered by NTriggers callers at once
InitConc ==
    /\ InitCommon
    /\ lifespan_pc = [t \in 1..NTriggers |-> "start"]

SpecConc == InitConc /\ [][Next]_vars

(* ---- vocabulary of the properties ---- *)

\* the readiness state of the process, read off the position of lifespan
ReadinessState ==
    LET pc == lifespan_pc[1]
    IN  CASE pc = "start" -> "Uninitialized"
          [] pc \in {"try", "build"} -> "Initializing"
          [] pc = "yield" -> "Ready"
          [] pc \in {"yield_err", "raised"} -> "Failed"

\* text without its leading and trailing blanks
RECURSIVE Trim(_)
Trim(text) ==
    IF text = <<>> THEN <<>>
    ELSE IF Head(text) = " " THEN Trim(Tail(text))
    ELSE IF text[Len(text)] = " " THEN Trim(SubSeq(text, 1, Len(text) - 1))
    ELSE text

Min(a, b) == IF a < b THEN a ELSE b

IsDigit(c) == \E d \in 1..10 : Digits[d] = c

DigitValue(c) == (CHOOSE d \in 1..10 : Digits[d] = c) - 1

\* the integer a decimal numeral denotes
RECURSIVE parse_int(_)
parse_int(text) ==
    IF Len(text) = 1 THEN DigitValue(text[1])
    ELSE 10 * parse_int(SubSeq(text, 1, Len(text) - 1)) + DigitValue(text[Len(text)])

\* the slot answered by this step
Responded(s) == req[s].pc # "done" /\ req'[s].pc = "done"

\* normalized is the wire form of the backend record
NormalizedFrom(normalized, record) ==
    /\ normalized.fact = record.fact
    /\ IF record.uuid.kind = "int"
       THEN /\ normalized.uuid # <<>>
            /\ \A k \in DOMAIN normalized.uuid : IsDigit(normalized.uuid[k])
            /\ parse_int(normalized.uuid) = record.uuid.n
       ELSE normalized.uuid = record.uuid.s
    /\ IF "score" \in DOMAIN record
       THEN normalized.score = record.score
       ELSE normalized.score = 0

(* ---- properties ---- *)

\* C1: an addEpisode or search request made while the readiness state is not
\* Ready is answered 503 and no backend operation is invoked for it.
C1_NotReadyRejected ==
    ReadinessState # "Ready" =>
        /\ last.op \in {"add_episode", "search_knowledge_graph"} =>
                last.status_code = 503 /\ last.calls = 0
        /\ \A s \in Slots : req[s].pc # "await"

\* C2: an episode submission whose content is empty, or empty after
\* trimming, is answered 400 and add_episode of the backend is never called.
C2_EmptyContentRejected ==
    /\ (last.op = "add_episode" /\ Trim(last.content) = <<>>) =>
            last.status_code = 400 /\ last.calls = 0
    /\ \A s \in Slots :
            (req[s].pc = "await" /\ req[s].op = "add_episode") =>
                Trim(req[s].content) # <<>>

\* C3: the health check answers 200 and database_connected is true exactly
\* when the readiness state is Ready.
C3_HealthReflectsReadiness ==
    last.op = "health_check" =>
        /\ last.status_code = 200
        /\ last.database_connected <=> (ReadinessState = "Ready")

\* C4: after a failed initialization the process keeps running and every
\* health check reports a degraded, not connected, status.
C4_FailedInitDegraded ==
    ReadinessState = "Failed" =>
        /\ lifespan_pc[1] # "raised"
        /\ last.op = "health_check" =>
                /\ last.status_code = 200
                /\ ~last.database_connected
                /\ last.status \in {"degraded", "unhealthy"}

\* C5: concurrent initialization triggers make exactly one backend connect
\* attempt and all end in the same readiness state.
C5_SingleFlight ==
    /\ constructs <= 1
    /\ (\A t \in Triggers : lifespan_pc[t] \in {"yield", "yield_err", "raised"}) =>
            \A t, u \in Triggers : lifespan_pc[t] = lifespan_pc[u]

\* C6: a successful search answers the first min(limit, |R|) results of the
\* backend's sequence R, in order, and results_count is their number.
C6_TruncatedToLimit ==
    (last.op \in {"search_knowledge_graph", "query_graph"} /\ last.status_code = 200) =>
        /\ Len(last.results) = Min(last.limit, Len(last.raw))
        /\ last.results_count = Len(last.results)
        /\ \A i \in 1..Len(last.results) :
                IF last.op = "query_graph"
                THEN last.results[i] = last.raw[i]
                ELSE NormalizedFrom(last.results[i], last.raw[i])

\* C7: a request invokes its backend operation at most once, and when that
\* call raises the request ends with 500 after that single call.
C7_NoRetry ==
    /\ \A s \in Slots : req[s].calls <= 1
    /\ last.calls <= 1
    /\ last.raised => (last.status_code = 500 /\ last.calls = 1)

C7_Witness ==
    /\ last.raised
    /\ last.op \in {"add_episode", "search_knowledge_graph", "add_data"}
    /\ last.status_code = 500

\* C8: each normalized search result has the fact of its backend record, the
\* identifier as text, and the backend's score, or 0.0 when it has none.
C8_Normalized ==
    (last.op = "search_knowledge_graph" /\ last.status_code = 200) =>
        \A i \in 1..Len(last.results) :
            /\ i <= Len(last.raw)
            /\ NormalizedFrom(last.results[i], last.raw[i])

C8_Witness ==
    /\ last.op = "search_knowledge_graph"
    /\ last.status_code = 200
    /\ \E i, j \in 1..Len(last.results) :
            /\ "score" \notin DOMAIN last.raw[i]
            /\ last.raw[i].uuid.kind = "int"
            /\ "score" \in DOMAIN last.raw[j]
            /\ last.raw[j].uuid.kind = "str"

\* C9: the readiness state moves only Uninitialized -> Initializing ->
\* Ready or Failed, the constructor runs at most once, and once startup is
\* complete no step writes the handle or restarts initialization.
C9_ReadinessFrame ==
    [][/\ constructs' <= 1
       /\ \/ ReadinessState' = ReadinessState
          \/ <<ReadinessState, ReadinessState'>> \in
                {<<"Uninitialized", "Initializing">>,
                 <<"Initializing", "Ready">>,
                 <<"Initializing", "Failed">>}
       /\ Serving => /\ graphiti_instance' = graphiti_instance
                     /\ constructs' = constructs
                     /\ lifespan_pc' = lifespan_pc]_vars

C9_Witness ==
    /\ Serving
    /\ last.raised
    /\ graphiti_instance # None
    /\ \A s \in Slots : req[s].pc = "done"

\* C10: the backend's episodes change only when an addEpisode request
\* succeeds, by exactly one; the other requests leave them alone, and
\* listGraphs and createGraph invoke no backend operation and answer the
\* placeholder graph.
C10_EpisodesFrame ==
    [][/\ episodes' # episodes =>
            /\ episodes' = episodes + 1
            /\ last'.op \in {"add_episode", "add_data"}
            /\ last'.status_code = 200
            /\ \E s \in Slots : Responded(s)
       /\ \A s \in Slots :
            (Responded(s) /\ last'.op \in {"add_episode", "add_data"}
                /\ last'.status_code = 200) => episodes' = episodes + 1
       /\ \A s \in Slots :
            (Responded(s) /\ last'.op \in {"list_graphs", "create_graph"}) =>
                /\ last'.calls = 0
                /\ req[s].pc = "new"
                /\ last'.status_code = 200 => last'.id = "graph_001"]_vars

C10_Witness ==
    /\ episodes = 1
    /\ last.op = "create_graph"
    /\ last.status_code = 200

====
